---- MODULE Spec2Model ----
(***************************************************************************)
(* The NPS dashboard script (src/index.py) as a state machine.  One run of *)
(* the script from top to bottom is one analysis pass: load, sidebar       *)
(* filters, empty-state guard, KPIs, custom chart, radar, trend, feedback. *)
(* Every section is one action; the widget values the user supplies are    *)
(* the \E-bound inputs of the section that reads them.                     *)
(*                                                                         *)
(* Data representation                                                     *)
(*   text cell      sequence of one-character strings                      *)
(*   missing cell   NaN (the empty sequence; no text cell of the input is  *)
(*                  empty, a numeric cell is a one-element sequence <<v>>) *)
(*   timestamp      [ano, mes, dia, hora]  (datetime64: date + time of day)*)
(*   dataframe      [colunas : sequence of column names,                   *)
(*                   dtypes  : column name -> dtype,                       *)
(*                   linhas  : sequence of rows (column name -> cell)]     *)
(***************************************************************************)
EXTENDS Integers, Sequences, FiniteSets, TLC

VARIABLES
    pc,                  \* the section the script is about to run
    arquivo,             \* what carregar_dados finds on disk
    df_original,         \* the dataframe after load
    df_filtrado,         \* the working set
    data_inicio_dt,      \* sidebar: 'De:'  as a timestamp
    data_fim_dt,         \* sidebar: 'Ate:' as a timestamp
    termo_pesquisa,      \* sidebar: company search box
    opcoes_selecionadas, \* sidebar: multiselect value of every categorical filter
    secoes,              \* the page: names of the blocks rendered so far, in order
    elemento             \* the data of the block rendered last

vars == <<pc, arquivo, df_original, df_filtrado, data_inicio_dt, data_fim_dt,
          termo_pesquisa, opcoes_selecionadas, secoes, elemento>>

----------------------------------------------------------------------------
(* Bounds *)

\* rows of a loaded file
MaxLinhas == 3
\* responses of a set handed to the score function on its own
MaxRespostas == 8

----------------------------------------------------------------------------
(* Generic helpers *)

Min(a, b) == IF a <= b THEN a ELSE b
Abs(x) == IF x < 0 THEN -x ELSE x
Range(s) == {s[i] : i \in 1..Len(s)}

RECURSIVE SeqsUpTo(_, _)
\* all sequences over S of length 0..n
SeqsUpTo(S, n) ==
    IF n = 0 THEN {<<>>}
    ELSE LET prev == SeqsUpTo(S, n - 1)
         IN  prev \cup {Append(s, x) : s \in {p \in prev : Len(p) = n - 1}, x \in S}

RECURSIVE NonDecreasing(_, _)
\* all non-decreasing sequences over the integer set S of length 0..n
NonDecreasing(S, n) ==
    IF n = 0 THEN {<<>>}
    ELSE LET prev == NonDecreasing(S, n - 1)
             full == {p \in prev : Len(p) = n - 1}
         IN  prev \cup UNION {{Append(s, x) :
                                 x \in {y \in S : n = 1 \/ y >= s[n - 1]}} : s \in full}

----------------------------------------------------------------------------
(* Cells, text and timestamps *)

NaN == <<>>
isna(c) == c = NaN

Maiusculas == <<"A","B","C","D","E","F","G","H","I","J","K","L","M",
                "N","O","P","Q","R","S","T","U","V","W","X","Y","Z">>
Minusculas == <<"a","b","c","d","e","f","g","h","i","j","k","l","m",
                "n","o","p","q","r","s","t","u","v","w","x","y","z">>

\* str.lower() on one character
LowerChar(c) ==
    IF \E i \in 1..Len(Maiusculas) : Maiusculas[i] = c
    THEN Minusculas[CHOOSE i \in 1..Len(Maiusculas) : Maiusculas[i] = c]
    ELSE c

Lower(t) == [i \in 1..Len(t) |-> LowerChar(t[i])]

\* Series.str.contains(termo, case=False, na=False) on one cell, for a termo made
\* of letters (no regular-expression metacharacters)
str_contains(celula, termo) ==
    IF isna(celula) THEN FALSE
    ELSE \E i \in 1..(Len(celula) - Len(termo) + 1) :
            SubSeq(Lower(celula), i, i + Len(termo) - 1) = Lower(termo)

Ts(a, m, d, h) == [ano |-> a, mes |-> m, dia |-> d, hora |-> h]
Date(a, m, d) == [ano |-> a, mes |-> m, dia |-> d]

\* Timestamp.date(): the time of day is dropped
date(ts) == Date(ts.ano, ts.mes, ts.dia)
\* pd.to_datetime(datetime.date): midnight of that day
to_datetime(d) == Ts(d.ano, d.mes, d.dia, 0)

\* position of a timestamp on the time line, in hours (comparison key only)
Instante(ts) == ((ts.ano * 12 + (ts.mes - 1)) * 31 + (ts.dia - 1)) * 24 + ts.hora
TsLeq(a, b) == Instante(a) <= Instante(b)
DateLeq(a, b) == TsLeq(to_datetime(a), to_datetime(b))

----------------------------------------------------------------------------
(* Dataframes *)

DataFrame(cols, types, rows) == [colunas |-> cols, dtypes |-> types, linhas |-> rows]
len(df) == Len(df.linhas)
TemColuna(df, c) == c \in Range(df.colunas)

\* df[mask]: a new dataframe holding the given rows of df (those the mask keeps)
ComLinhas(df, linhas) == [df EXCEPT !.linhas = linhas]

\* df[nome] = valores: the column is appended (or overwritten) in df itself
AtribuirColuna(df, nome, tipo, valores) ==
    DataFrame(IF TemColuna(df, nome) THEN df.colunas ELSE Append(df.colunas, nome),
              (nome :> tipo) @@ df.dtypes,
              [i \in 1..len(df) |-> (nome :> valores[i]) @@ df.linhas[i]])

\* Series.unique(): the distinct cells of a column, NaN included
unique(df, c) == {df.linhas[i][c] : i \in 1..len(df)}

\* number of rows with df[c] == v
Contar(df, c, v) == Cardinality({i \in 1..len(df) : df.linhas[i][c] = v})

----------------------------------------------------------------------------
(* Calculation functions, src/index.py:18-34 *)

\* the three labels, text cells of the classificacao column
Detrator == <<"D","e","t","r","a","t","o","r">>
Passivo == <<"P","a","s","s","i","v","o">>
Promotor == <<"P","r","o","m","o","t","o","r">>

\* MUTANT of classificar_nps: the Passive band starts one rating too late
classificar_nps_lt(nota) ==
    IF nota < 6 THEN Detrator
    ELSE IF nota <= 8 THEN Passivo
    ELSE Promotor

classificar_nps(nota) ==
    IF nota <= 6 THEN Detrator
    ELSE IF nota <= 8 THEN Passivo
    ELSE Promotor

\* MUTANT of round: truncation toward minus infinity
round_floor(num, den) == num \div den

\* Python round() of the fraction num/den (den > 0): nearest integer, a tie goes
\* to the even neighbour.  The code rounds the double (P/N)*100 - (D/N)*100; the
\* double and the exact fraction round alike for every N < 24 (from N = 24 on a
\* tie may fall to either neighbour).
round(num, den) ==
    LET q == num \div den
        r == num - q * den
    IN  IF 2 * r < den THEN q
        ELSE IF 2 * r > den THEN q + 1
        ELSE IF q % 2 = 0 THEN q ELSE q + 1

calcular_score_nps(df) ==
    LET total_respostas == len(df)
    IN  IF total_respostas = 0 THEN 0
        ELSE LET promotores == Contar(df, "classificacao", Promotor)
                 detratores == Contar(df, "classificacao", Detrator)
                 \* percentages as fractions over total_respostas
                 percent_promotores == promotores * 100
                 percent_detratores == detratores * 100
             IN  round(percent_promotores - percent_detratores, total_respostas)

----------------------------------------------------------------------------
(* Input files: what carregar_dados(NOME_ARQUIVO_NPS) may find *)

Acme == <<"A","c","m","e">>
Beta == <<"B","e","t","a">>
Pro == <<"P","r","o">>
Basic == <<"B","a","s","i","c">>
TI == <<"T","I">>
Caro == <<"c","a","r","o">>

ColunasCompletas ==
    <<"Data", "NPS Quantitativo", "Empresa", "Plano do Cliente", "Setor",
      "Atendimento", "Preco", "Justificativa">>

TiposCompletos ==
    ("Data" :> "datetime64[ns]") @@ ("NPS Quantitativo" :> "int64") @@
    ("Empresa" :> "object") @@ ("Plano do Cliente" :> "object") @@
    ("Setor" :> "object") @@ ("Atendimento" :> "float64") @@
    ("Preco" :> "int64") @@ ("Justificativa" :> "object")

Linha(data, nota, empresa, plano, setor, atendimento, preco, justificativa) ==
    ("Data" :> data) @@ ("NPS Quantitativo" :> nota) @@ ("Empresa" :> empresa) @@
    ("Plano do Cliente" :> plano) @@ ("Setor" :> setor) @@
    ("Atendimento" :> atendimento) @@ ("Preco" :> preco) @@
    ("Justificativa" :> justificativa)

\* rows a full-schema file is made of: three months over two years, two rows on
\* the same day (one at midnight, one in the afternoon), missing cells in a
\* company, a sector, a criterion and a comment
LinhasCompletas ==
    { Linha(Ts(2024, 12, 5, 0),  3, Acme, Pro,   TI,  <<4>>, <<6>>, Caro),
      Linha(Ts(2025, 9, 30, 0),  7, Beta, Basic, NaN, NaN,   <<8>>, NaN),
      Linha(Ts(2025, 10, 1, 14), 9, NaN,  Pro,   TI,  <<9>>, <<7>>, NaN),
      Linha(Ts(2025, 10, 1, 0),  6, Acme, Basic, TI,  <<7>>, <<3>>, NaN) }

ColunasMinimas == <<"Data", "NPS Quantitativo">>
TiposMinimos == ("Data" :> "datetime64[ns]") @@ ("NPS Quantitativo" :> "int64")
LinhaMinima(data, nota) == ("Data" :> data) @@ ("NPS Quantitativo" :> nota)

\* rows of a file that holds the two reserved columns only
LinhasMinimas ==
    { LinhaMinima(Ts(2025, 9, 30, 0), 8), LinhaMinima(Ts(2025, 10, 1, 14), 10) }

Arquivo(tabela) == [existe |-> TRUE, tabela |-> tabela]

\* files that load: at least one row, every date a timestamp, every rating an integer
ArquivosValidos ==
    {Arquivo(DataFrame(ColunasCompletas, TiposCompletos, ls)) :
        ls \in SeqsUpTo(LinhasCompletas, MaxLinhas) \ {<<>>}}
    \cup
    {Arquivo(DataFrame(ColunasMinimas, TiposMinimos, ls)) :
        ls \in SeqsUpTo(LinhasMinimas, MaxLinhas) \ {<<>>}}

ArquivoAusente == [existe |-> FALSE, tabela |-> DataFrame(<<>>, <<>>, <<>>)]

\* files that exist and do not load: a reserved column is missing, the date
\* column holds text that is no date, the rating column holds text
ArquivosMalformados ==
    { Arquivo(DataFrame(<<"NPS Quantitativo">>, ("NPS Quantitativo" :> "int64"),
                        << ("NPS Quantitativo" :> 9) >>)),
      Arquivo(DataFrame(<<"Data">>, ("Data" :> "datetime64[ns]"),
                        << ("Data" :> Ts(2025, 10, 1, 0)) >>)),
      Arquivo(DataFrame(ColunasMinimas,
                        ("Data" :> "object") @@ ("NPS Quantitativo" :> "int64"),
                        << LinhaMinima(<<"o","n","t","e","m">>, 9) >>)),
      Arquivo(DataFrame(ColunasMinimas,
                        ("Data" :> "datetime64[ns]") @@ ("NPS Quantitativo" :> "object"),
                        << LinhaMinima(Ts(2025, 10, 1, 0), <<"d","e","z">>) >>)) }

\* dates the user may pick in the two date inputs
Calendario == {Date(2024, 12, 5), Date(2025, 9, 30), Date(2025, 10, 1)}

\* texts the user may type in the search box ("" leaves the box empty)
Termos == { <<>>, <<"a","c">>, <<"E">> }

----------------------------------------------------------------------------
(* Load, src/index.py:47-59 *)

Renomear(c) ==
    IF c = "NPS Quantitativo" THEN "nota_nps"
    ELSE IF c = "Data" THEN "data"
    ELSE c

\* df.rename(columns={...}, inplace=True)
rename(df) ==
    LET nomes == [i \in 1..Len(df.colunas) |-> Renomear(df.colunas[i])]
        antigo(c) == CHOOSE k \in Range(df.colunas) : Renomear(k) = c
    IN  DataFrame(nomes,
                  [c \in Range(nomes) |-> df.dtypes[antigo(c)]],
                  [i \in 1..len(df) |-> [c \in Range(nomes) |-> df.linhas[i][antigo(c)]]])

\* the exception, if any, the body of the try block raises
ErroDeCarga(arq) ==
    IF ~arq.existe THEN "FileNotFoundError"
    ELSE LET df == rename(arq.tabela)
         IN  IF ~TemColuna(df, "data") THEN "KeyError"            \* df_original['data']
             ELSE IF df.dtypes["data"] = "object" THEN "ValueError"   \* pd.to_datetime
             ELSE IF ~TemColuna(df, "nota_nps") THEN "KeyError"   \* df_original['nota_nps']
             ELSE IF df.dtypes["nota_nps"] = "object" THEN "TypeError" \* str <= int
             ELSE "nenhum"

\* the dataframe the try block leaves in df_original when nothing is raised
DadosCarregados(arq) ==
    LET df == rename(arq.tabela)
    IN  AtribuirColuna(df, "classificacao", "object",
                       [i \in 1..len(df) |-> classificar_nps(df.linhas[i]["nota_nps"])])

Indefinido == [indefinido |-> TRUE]
DfVazio == DataFrame(<<>>, <<>>, <<>>)

Init ==
    /\ pc = "carregar"
    /\ arquivo \in ArquivosValidos \cup ArquivosMalformados \cup {ArquivoAusente}
    /\ df_original = DfVazio
    /\ df_filtrado = DfVazio
    /\ data_inicio_dt = Indefinido
    /\ data_fim_dt = Indefinido
    /\ termo_pesquisa = <<>>
    /\ opcoes_selecionadas = <<>>
    /\ secoes = <<"sidebar.image">>
    /\ elemento = [secao |-> "nenhum"]

\* MUTANT of Parar: st.stop() left out of the handlers, the script runs on
SeguirAposErro(erro) == "filtro_data"

\* where the script goes after the try block
Parar(erro) == IF erro = "nenhum" THEN "filtro_data" ELSE "parado"

Carregar ==
    /\ pc = "carregar"
    /\ LET erro == ErroDeCarga(arquivo)
       IN  /\ df_original' = IF erro = "nenhum" THEN DadosCarregados(arquivo)
                             ELSE df_original
           /\ secoes' = IF erro = "nenhum" THEN secoes
                        ELSE IF erro = "FileNotFoundError"
                             THEN secoes \o <<"error: arquivo nao encontrado", "info">>
                             ELSE secoes \o <<"error: erro ao processar", "info">>
           /\ pc' = Parar(erro)
    /\ UNCHANGED <<arquivo, df_filtrado, data_inicio_dt, data_fim_dt,
                   termo_pesquisa, opcoes_selecionadas, elemento>>

----------------------------------------------------------------------------
(* Sidebar filters, src/index.py:62-86 *)

\* (df['data'] >= data_inicio_dt) & (df['data'] <= data_fim_dt) on one cell
NoIntervalo(ts, inicio, fim) == TsLeq(inicio, ts) /\ TsLeq(ts, fim)

FiltroData ==
    /\ pc = "filtro_data"
    /\ \E data_inicio \in Calendario, data_fim \in Calendario :
          /\ data_inicio_dt' = to_datetime(data_inicio)
          /\ data_fim_dt' = to_datetime(data_fim)
          /\ df_filtrado' =
                ComLinhas(df_original,
                    SelectSeq(df_original.linhas,
                              LAMBDA l : NoIntervalo(l["data"], to_datetime(data_inicio),
                                                     to_datetime(data_fim))))
    /\ secoes' = secoes \o <<"sidebar.date_input De:", "sidebar.date_input Ate:">>
    /\ pc' = "pesquisa"
    /\ UNCHANGED <<arquivo, df_original, termo_pesquisa, opcoes_selecionadas, elemento>>

\* MUTANT of FiltrarPorTermo: the search is run on the unfiltered dataframe
FiltrarPorTermoNoOriginal(df, termo) ==
    IF termo # <<>>
    THEN ComLinhas(df, SelectSeq(df_original.linhas,
                                 LAMBDA l : str_contains(l["Empresa"], termo)))
    ELSE df

\* if termo_pesquisa: df = df[df['Empresa'].str.contains(termo_pesquisa, ...)]
FiltrarPorTermo(df, termo) ==
    IF termo # <<>>
    THEN ComLinhas(df, SelectSeq(df.linhas, LAMBDA l : str_contains(l["Empresa"], termo)))
    ELSE df

Pesquisa ==
    /\ pc = "pesquisa"
    /\ IF TemColuna(df_filtrado, "Empresa")
       THEN /\ \E termo \in Termos :
                  /\ termo_pesquisa' = termo
                  /\ df_filtrado' = FiltrarPorTermo(df_filtrado, termo)
            /\ secoes' = Append(secoes, "sidebar.text_input Empresa")
       ELSE UNCHANGED <<termo_pesquisa, df_filtrado, secoes>>
    /\ pc' = "filtro 1"
    /\ UNCHANGED <<arquivo, df_original, data_inicio_dt, data_fim_dt,
                   opcoes_selecionadas, elemento>>

filtros_disponiveis == <<"Plano do Cliente", "Setor", "Canal">>

\* the script position at the i-th iteration of the loop over filtros_disponiveis
PcFiltro(i) == IF i = 1 THEN "filtro 1" ELSE IF i = 2 THEN "filtro 2" ELSE "filtro 3"

\* df[df[filtro].isin(opcoes_selecionadas)]; isin matches a missing cell when NaN
\* is among the selected options
FiltrarPorOpcoes(df, filtro, selecionadas) ==
    ComLinhas(df, SelectSeq(df.linhas, LAMBDA l : l[filtro] \in selecionadas))

\* one iteration of the loop
FiltroCategorico(i) ==
    LET filtro == filtros_disponiveis[i]
    IN  /\ pc = PcFiltro(i)
        /\ IF TemColuna(df_filtrado, filtro)
           THEN LET opcoes == unique(df_filtrado, filtro)
                IN  /\ \E selecionadas \in SUBSET opcoes :
                          /\ opcoes_selecionadas' =
                                (filtro :> selecionadas) @@ opcoes_selecionadas
                          /\ df_filtrado' = FiltrarPorOpcoes(df_filtrado, filtro, selecionadas)
                    /\ secoes' = Append(secoes, "sidebar.multiselect")
           ELSE UNCHANGED <<opcoes_selecionadas, df_filtrado, secoes>>
        /\ pc' = IF i < Len(filtros_disponiveis) THEN PcFiltro(i + 1) ELSE "guarda"
        /\ UNCHANGED <<arquivo, df_original, data_inicio_dt, data_fim_dt,
                       termo_pesquisa, elemento>>

----------------------------------------------------------------------------
(* Title and empty-state guard, src/index.py:89-94 *)

empty(df) == len(df) = 0

\* MUTANT of SemDados: the guard looks at the unfiltered dataframe
SemDadosNoOriginal == empty(df_original)

\* if df_filtrado.empty:
SemDados == empty(df_filtrado)

Guarda ==
    /\ pc = "guarda"
    /\ IF SemDados
       THEN /\ secoes' = secoes \o <<"title", "warning: nenhum dado encontrado">>
            /\ pc' = "parado"
       ELSE /\ secoes' = Append(secoes, "title")
            /\ pc' = "kpis"
    /\ UNCHANGED <<arquivo, df_original, df_filtrado, data_inicio_dt, data_fim_dt,
                   termo_pesquisa, opcoes_selecionadas, elemento>>

----------------------------------------------------------------------------
(* KPIs, src/index.py:98-116 *)

\* f"{x:.1%}" of the fraction num/den, in tenths of a percent
Percentual(num, den) == round(1000 * num, den)

\* total_respostas = 0 makes total_promotores/total_respostas raise
\* ZeroDivisionError, which nothing catches
KPIs ==
    /\ pc = "kpis"
    /\ LET score_nps_final == calcular_score_nps(df_filtrado)
           total_respostas == len(df_filtrado)
           total_promotores == Contar(df_filtrado, "classificacao", Promotor)
           total_passivos == Contar(df_filtrado, "classificacao", Passivo)
           total_detratores == Contar(df_filtrado, "classificacao", Detrator)
       IN  IF total_respostas = 0
           THEN /\ pc' = "ZeroDivisionError"
                /\ secoes' = secoes \o <<"header KPIs", "metric Score NPS Final",
                                         "metric Total de Respostas">>
                /\ elemento' = [secao |-> "kpis", score |-> score_nps_final,
                                total |-> total_respostas]
           ELSE /\ pc' = "grafico"
                /\ secoes' = Append(secoes, "kpis")
                /\ elemento' =
                      [secao |-> "kpis", score |-> score_nps_final,
                       total |-> total_respostas,
                       promotores |-> total_promotores,
                       passivos |-> total_passivos,
                       detratores |-> total_detratores,
                       pct_promotores |-> Percentual(total_promotores, total_respostas),
                       pct_passivos |-> Percentual(total_passivos, total_respostas),
                       pct_detratores |-> Percentual(total_detratores, total_respostas)]
    /\ UNCHANGED <<arquivo, df_original, df_filtrado, data_inicio_dt, data_fim_dt,
                   termo_pesquisa, opcoes_selecionadas>>

----------------------------------------------------------------------------
(* Grouping: DataFrame.groupby(keys), dropna=True and sort=True by default *)

ChaveDe(l, chaves) == [i \in 1..Len(chaves) |-> l[chaves[i]]]
ChaveCompleta(l, chaves) == \A i \in 1..Len(chaves) : ~isna(l[chaves[i]])

\* the group keys: one per combination present in the data; a row with a missing
\* cell in any key column belongs to no group
Grupos(df, chaves) ==
    {ChaveDe(df.linhas[i], chaves) :
        i \in {n \in 1..len(df) : ChaveCompleta(df.linhas[n], chaves)}}

Grupo(df, chaves, k) ==
    ComLinhas(df, SelectSeq(df.linhas, LAMBDA l : ChaveDe(l, chaves) = k))

\* groupby(chaves).size()
groupby_size(df, chaves) ==
    [k \in Grupos(df, chaves) |-> len(Grupo(df, chaves, k))]

\* groupby(chaves).apply(calcular_score_nps)
groupby_score(df, chaves) ==
    [k \in Grupos(df, chaves) |-> calcular_score_nps(Grupo(df, chaves, k))]

RECURSIVE Soma(_)
\* sum of the values of a finite function
Soma(f) ==
    IF DOMAIN f = {} THEN 0
    ELSE LET k == CHOOSE x \in DOMAIN f : TRUE
         IN  f[k] + Soma([x \in DOMAIN f \ {k} |-> f[x]])

----------------------------------------------------------------------------
(* Custom chart builder, src/index.py:121-147 *)

Presentes(df, candidatas) == SelectSeq(candidatas, LAMBDA c : TemColuna(df, c))

colunas_categoricas(df) ==
    Presentes(df, <<"Setor", "Plano do Cliente", "Empresa", "Canal", "classificacao">>)

metricas_disponiveis == <<"Contagem de Respostas", "Score NPS">>

\* the selectbox value for "no colour"
None == "None"

\* the dataframe handed to the chart and the metric it shows.  The colour
\* dimension, when set, is a column other than the X axis.
df_grafico(df, tipo_grafico, eixo_x, eixo_y, cor) ==
    IF tipo_grafico = "Barras"
    THEN LET chaves == <<eixo_x>> \o (IF cor # None THEN <<cor>> ELSE <<>>)
         IN  IF eixo_y = "Score NPS" THEN groupby_score(df, chaves)
             ELSE groupby_size(df, chaves)
    ELSE groupby_size(df, <<eixo_x>>)

Grafico ==
    /\ pc = "grafico"
    /\ \E tipo_grafico \in {"Barras", "Pizza (Rosca)"},
          eixo_x \in Range(colunas_categoricas(df_filtrado)),
          eixo_y \in Range(metricas_disponiveis),
          cor \in {None} \cup Range(colunas_categoricas(df_filtrado)) :
          /\ cor # eixo_x
          /\ elemento' =
                [secao |-> "grafico", tipo |-> tipo_grafico, x |-> eixo_x,
                 color |-> IF tipo_grafico = "Barras" THEN cor ELSE None,
                 metrica |-> IF tipo_grafico = "Barras" THEN eixo_y
                             ELSE "Contagem de Respostas",
                 aviso |-> tipo_grafico # "Barras" /\ eixo_y # "Contagem de Respostas",
                 dados |-> df_grafico(df_filtrado, tipo_grafico, eixo_x, eixo_y, cor)]
    /\ secoes' = Append(secoes, "grafico")
    /\ pc' = "radar"
    /\ UNCHANGED <<arquivo, df_original, df_filtrado, data_inicio_dt, data_fim_dt,
                   termo_pesquisa, opcoes_selecionadas>>

----------------------------------------------------------------------------
(* Number formatting *)

Digitos == <<"0","1","2","3","4","5","6","7","8","9">>
Digito(d) == Digitos[d + 1]

RECURSIVE Str(_)
\* str(n) of a natural number
Str(n) == IF n < 10 THEN <<Digito(n)>> ELSE Append(Str(n \div 10), Digito(n % 10))

\* f'{v:.1f}' of a mean [soma, n]; the mean of no value is nan
Formatar1f(v) ==
    IF v.n = 0 THEN <<"n","a","n">>
    ELSE LET decimos == round(10 * v.soma, v.n)
         IN  Str(decimos \div 10) \o <<".", Digito(decimos % 10)>>

----------------------------------------------------------------------------
(* Radar chart, src/index.py:154-196 *)

colunas_de_notas(df) ==
    SelectSeq(df.colunas,
              LAMBDA col : df.dtypes[col] \in {"int64", "float64"} /\ col # "nota_nps")

colunas_de_agrupamento(df) ==
    Presentes(df, <<"Empresa", "Setor", "Plano do Cliente", "Canal">>)

RECURSIVE SomaCelulas(_, _, _)
\* sum of the present cells of column c over the first n rows
SomaCelulas(df, c, n) ==
    IF n = 0 THEN 0
    ELSE SomaCelulas(df, c, n - 1) +
         (IF isna(df.linhas[n][c]) THEN 0 ELSE df.linhas[n][c][1])

\* Series.mean(): missing cells are skipped; kept exact as sum and count
mean(df, c) ==
    [soma |-> SomaCelulas(df, c, len(df)),
     n |-> Cardinality({i \in 1..len(df) : ~isna(df.linhas[i][c])})]

\* MUTANT of Fechar: the last point is repeated instead of the first
FecharComUltimo(lista) == Append(lista, lista[Len(lista)])

\* lista.append(lista[0]) / lista + [lista[0]]: the polygon is closed
Fechar(lista) == Append(lista, lista[1])

\* the Scatterpolar trace of one item of df_media_radar
Traco(df_radar_filtrado, categoria_radar, item) ==
    LET criterios == colunas_de_notas(df_radar_filtrado)
        dados_item == Grupo(df_radar_filtrado, <<categoria_radar>>, <<item>>)
        valores == [i \in 1..Len(criterios) |-> mean(dados_item, criterios[i])]
        textos_rotulos == [i \in 1..Len(valores) |-> Formatar1f(valores[i])]
    IN  [r |-> Fechar(valores), theta |-> Fechar(criterios),
         text |-> Fechar(textos_rotulos), name |-> item]

Radar ==
    /\ pc = "radar"
    /\ IF colunas_de_notas(df_filtrado) = <<>> \/ colunas_de_agrupamento(df_filtrado) = <<>>
       THEN elemento' = [secao |-> "radar", estado |-> "warning"]
       ELSE \E categoria_radar \in Range(colunas_de_agrupamento(df_filtrado)) :
            \E itens_selecionados_radar \in SUBSET unique(df_filtrado, categoria_radar) :
               IF itens_selecionados_radar = {}
               THEN elemento' = [secao |-> "radar", estado |-> "info"]
               ELSE LET df_radar_filtrado ==
                            FiltrarPorOpcoes(df_filtrado, categoria_radar,
                                             itens_selecionados_radar)
                        \* the items of df_media_radar: the group keys
                        com_dados ==
                            {item \in itens_selecionados_radar :
                                <<item>> \in Grupos(df_radar_filtrado, <<categoria_radar>>)}
                    IN  elemento' =
                           [secao |-> "radar", estado |-> "figura",
                            categoria |-> categoria_radar,
                            itens |-> itens_selecionados_radar,
                            criterios |-> colunas_de_notas(df_filtrado),
                            tracos |-> [item \in com_dados |->
                                           Traco(df_radar_filtrado, categoria_radar, item)]]
    /\ secoes' = Append(secoes, "radar")
    /\ pc' = "tendencia"
    /\ UNCHANGED <<arquivo, df_original, df_filtrado, data_inicio_dt, data_fim_dt,
                   termo_pesquisa, opcoes_selecionadas>>

----------------------------------------------------------------------------
(* Trend, src/index.py:201-210 *)

\* code-point order of the characters of a period string
Alfabeto == <<"-">> \o Digitos
Ord(c) == CHOOSE i \in 1..Len(Alfabeto) : Alfabeto[i] = c

\* Python's str < str
StrLess(a, b) ==
    \/ Len(a) < Len(b) /\ SubSeq(b, 1, Len(a)) = a
    \/ \E i \in 1..Min(Len(a), Len(b)) :
          /\ SubSeq(a, 1, i - 1) = SubSeq(b, 1, i - 1)
          /\ Ord(a[i]) < Ord(b[i])

\* MUTANT of FormatarPeriodo: the month is not zero-padded
FormatarPeriodoSemZero(ts) == Str(ts.ano) \o <<"-">> \o Str(ts.mes)

\* dt.to_period('M').astype(str): 'YYYY-MM'
FormatarPeriodo(ts) ==
    Str(ts.ano) \o <<"-">> \o (IF ts.mes < 10 THEN <<"0">> ELSE <<>>) \o Str(ts.mes)

RECURSIVE Ordenar(_)
\* the strings of a set in ascending order
Ordenar(S) ==
    IF S = {} THEN <<>>
    ELSE LET menor == CHOOSE x \in S : \A y \in S \ {x} : StrLess(x, y)
         IN  <<menor>> \o Ordenar(S \ {menor})

\* groupby('mes_ano')...reset_index(name='valor'): one row per key, keys ascending
df_grafico_linha(df, metrica_linha) ==
    LET valores == IF metrica_linha = "Score NPS" THEN groupby_score(df, <<"mes_ano">>)
                   ELSE groupby_size(df, <<"mes_ano">>)
        meses == Ordenar({k[1] : k \in DOMAIN valores})
    IN  [i \in 1..Len(meses) |-> [mes_ano |-> meses[i], valor |-> valores[<<meses[i]>>]]]

Tendencia ==
    /\ pc = "tendencia"
    /\ df_filtrado' =
          AtribuirColuna(df_filtrado, "mes_ano", "object",
              [i \in 1..len(df_filtrado) |-> FormatarPeriodo(df_filtrado.linhas[i]["data"])])
    /\ \E metrica_linha \in Range(metricas_disponiveis) :
          elemento' = [secao |-> "tendencia", metrica |-> metrica_linha,
                       dados |-> df_grafico_linha(df_filtrado', metrica_linha)]
    /\ secoes' = Append(secoes, "tendencia")
    /\ pc' = "feedbacks"
    /\ UNCHANGED <<arquivo, df_original, data_inicio_dt, data_fim_dt,
                   termo_pesquisa, opcoes_selecionadas>>

----------------------------------------------------------------------------
(* Detractor feedback, src/index.py:213-217 *)

\* Series/DataFrame.tail(n)
tail(lista, n) ==
    IF Len(lista) <= n THEN lista ELSE SubSeq(lista, Len(lista) - n + 1, Len(lista))

\* df[df['classificacao'] == 'Detrator'][['nota_nps', 'Justificativa']].dropna()
df_detratores(df) ==
    LET detratores == SelectSeq(df.linhas,
                          LAMBDA l : l["classificacao"] = Detrator
                                     /\ ~isna(l["Justificativa"]))
    IN  [i \in 1..Len(detratores) |->
            [nota_nps |-> detratores[i]["nota_nps"],
             Justificativa |-> detratores[i]["Justificativa"]]]

Feedbacks ==
    /\ pc = "feedbacks"
    /\ IF TemColuna(df_filtrado, "Justificativa")
       THEN /\ elemento' = [secao |-> "feedbacks",
                            dados |-> tail(df_detratores(df_filtrado), 10)]
            /\ secoes' = Append(secoes, "feedbacks")
       ELSE UNCHANGED <<elemento, secoes>>
    /\ pc' = "fim"
    /\ UNCHANGED <<arquivo, df_original, df_filtrado, data_inicio_dt, data_fim_dt,
                   termo_pesquisa, opcoes_selecionadas>>

----------------------------------------------------------------------------
(* One pass of the script *)

Next ==
    \/ Carregar
    \/ FiltroData
    \/ Pesquisa
    \/ \E i \in 1..Len(filtros_disponiveis) : FiltroCategorico(i)
    \/ Guarda
    \/ KPIs
    \/ Grafico
    \/ Radar
    \/ Tendencia
    \/ Feedbacks

Spec == Init /\ [][Next]_vars

----------------------------------------------------------------------------
(* The calculation functions on their own: a file of ratings is loaded        *)
(* (classificar_nps on every row) and handed whole to calcular_score_nps.     *)
(* The score does not depend on the order of the rows, so the files hold      *)
(* their ratings in non-decreasing order; the file may be empty.              *)

Notas == 0..10

\* the ratings on either side of the two class boundaries, and the extremes
NotasDeFronteira == {0, 6, 7, 8, 9, 10}

ArquivoDeNotas(notas) ==
    Arquivo(DataFrame(ColunasMinimas, TiposMinimos,
                      [i \in 1..Len(notas) |-> LinhaMinima(Ts(2025, 10, 1, 0), notas[i])]))

\* short files over every rating, long files over the boundary ratings
ArquivosDeNotas ==
    {ArquivoDeNotas(notas) : notas \in NonDecreasing(Notas, MaxLinhas)}
    \cup
    {ArquivoDeNotas(notas) : notas \in NonDecreasing(NotasDeFronteira, MaxRespostas)}

InitCalc ==
    /\ pc = "carregar"
    /\ arquivo \in ArquivosDeNotas
    /\ df_original = DfVazio
    /\ df_filtrado = DfVazio
    /\ data_inicio_dt = Indefinido
    /\ data_fim_dt = Indefinido
    /\ termo_pesquisa = <<>>
    /\ opcoes_selecionadas = <<>>
    /\ secoes = <<"sidebar.image">>
    /\ elemento = [secao |-> "nenhum"]

\* calcular_score_nps(df) on the loaded dataframe
CalcularScore ==
    /\ pc = "filtro_data"
    /\ elemento' = [secao |-> "score", score |-> calcular_score_nps(df_original)]
    /\ pc' = "fim"
    /\ UNCHANGED <<arquivo, df_original, df_filtrado, data_inicio_dt, data_fim_dt,
                   termo_pesquisa, opcoes_selecionadas, secoes>>

NextCalc == Carregar \/ CalcularScore

SpecCalc == InitCalc /\ [][NextCalc]_vars

----------------------------------------------------------------------------
(* Properties *)

Linhas(df) == Range(df.linhas)
Dependentes == {"kpis", "grafico", "radar", "tendencia", "feedbacks"}
Rotulos == {Detrator, Passivo, Promotor}

\* C1: after load, every row with an integer rating r in 0..10 carries exactly
\* one label: Detractor iff r <= 6, Passive iff 7 <= r <= 8, Promoter iff r >= 9.
C1_Classificacao ==
    (pc # "carregar" /\ TemColuna(df_original, "classificacao")) =>
        \A l \in Linhas(df_original) :
            LET r == l["nota_nps"]
                c == l["classificacao"]
            IN  /\ c \in Rotulos
                /\ (c = Detrator) <=> (r <= 6)
                /\ (c = Passivo) <=> (7 <= r /\ r <= 8)
                /\ (c = Promotor) <=> (r >= 9)

\* C1 witness: a loaded file with a rating on each side of both boundaries
C1_Witness ==
    /\ pc # "carregar"
    /\ TemColuna(df_original, "classificacao")
    /\ {6, 7, 8, 9} \subseteq {l["nota_nps"] : l \in Linhas(df_original)}

NumPromotores(df) == Cardinality({i \in 1..len(df) : df.linhas[i]["nota_nps"] >= 9})
NumDetratores(df) == Cardinality({i \in 1..len(df) : df.linhas[i]["nota_nps"] <= 6})

C3_ContagensSomamTotal ==
    (elemento.secao = "grafico" /\ elemento.metrica = "Contagem de Respostas") =>
        Soma(elemento.dados) = len(df_filtrado)

\* C4: every radar trace has len(criteria) + 1 values, its first and last value
\* are equal, values, labels and criteria have the same length and match
\* position by position, and each selected entity has at most one trace.
C4_RadarFechado ==
    (elemento.secao = "radar" /\ elemento.estado = "figura") =>
        /\ DOMAIN elemento.tracos \subseteq elemento.itens
        /\ \A item \in DOMAIN elemento.tracos :
              LET t == elemento.tracos[item]
                  criterios == elemento.criterios
                  n == Len(criterios)
                  do_item == Grupo(df_filtrado, <<elemento.categoria>>, <<item>>)
              IN  /\ t.name = item
                  /\ Len(t.r) = n + 1
                  /\ t.r[1] = t.r[n + 1]
                  /\ Len(t.text) = Len(t.r) /\ Len(t.theta) = Len(t.r)
                  /\ \A i \in 1..n : /\ t.theta[i] = criterios[i]
                                     /\ t.r[i] = mean(do_item, criterios[i])
                  /\ t.theta[n + 1] = criterios[1]
                  /\ \A i \in 1..(n + 1) : t.text[i] = Formatar1f(t.r[i])

\* C4 witness: two traces, one of them with different means on its two criteria
C4_Witness ==
    /\ elemento.secao = "radar" /\ elemento.estado = "figura"
    /\ Cardinality(DOMAIN elemento.tracos) = 2
    /\ \E item \in DOMAIN elemento.tracos :
          LET t == elemento.tracos[item]
          IN  Len(t.r) = 3 /\ t.r[1] # t.r[2] /\ t.text[1] # t.text[2]

\* the three kinds of sidebar filter as predicates on one row, with the widget
\* values the pass has read
PassaData(l) == NoIntervalo(l["data"], data_inicio_dt, data_fim_dt)
PassaPesquisa(l) ==
    ("Empresa" \in DOMAIN l /\ termo_pesquisa # <<>>) =>
        str_contains(l["Empresa"], termo_pesquisa)
PassaOpcoes(l) ==
    \A filtro \in DOMAIN opcoes_selecionadas : l[filtro] \in opcoes_selecionadas[filtro]

RECURSIVE AplicarOpcoes(_, _)
\* the categorical filters named in `filtros`, applied last to first
AplicarOpcoes(df, filtros) ==
    IF filtros = <<>> THEN df
    ELSE AplicarOpcoes(FiltrarPorOpcoes(df, filtros[Len(filtros)],
                                        opcoes_selecionadas[filtros[Len(filtros)]]),
                       SubSeq(filtros, 1, Len(filtros) - 1))

\* the sidebar filters in the reverse of the script's order
OrdemInversa ==
    LET categoricos == AplicarOpcoes(df_original, Presentes(df_original, filtros_disponiveis))
        pesquisa == IF TemColuna(df_original, "Empresa")
                    THEN FiltrarPorTermo(categoricos, termo_pesquisa)
                    ELSE categoricos
    IN  ComLinhas(pesquisa, SelectSeq(pesquisa.linhas, PassaData))

\* C5: when the sidebar is done, the working set holds exactly the records that
\* satisfy every filter, and applying the filters in the reverse order yields
\* the same set.
C5_FiltrosComutam ==
    pc = "guarda" =>
        /\ df_filtrado.linhas =
              SelectSeq(df_original.linhas,
                        LAMBDA l : PassaData(l) /\ PassaPesquisa(l) /\ PassaOpcoes(l))
        /\ df_filtrado = OrdemInversa

\* C5 witness: every kind of filter narrowed the set: a record rejected by the
\* date range, one that passes it and is rejected by the search, and one that
\* passes both and is rejected by a multiselect
C5_Witness ==
    /\ pc = "guarda"
    /\ \E l \in Linhas(df_original) : ~PassaData(l)
    /\ \E l \in Linhas(df_original) : PassaData(l) /\ ~PassaPesquisa(l)
    /\ \E l \in Linhas(df_original) : PassaData(l) /\ PassaPesquisa(l) /\ ~PassaOpcoes(l)

\* the file is absent, or a reserved column is missing or holds text
ArquivoComDefeito ==
    \/ ~arquivo.existe
    \/ ~TemColuna(arquivo.tabela, "Data")
    \/ ~TemColuna(arquivo.tabela, "NPS Quantitativo")
    \/ arquivo.tabela.dtypes["Data"] = "object"
    \/ arquivo.tabela.dtypes["NPS Quantitativo"] = "object"

ControlesDeData == {"sidebar.date_input De:", "sidebar.date_input Ate:"}

\* C6: with an empty working set the pass shows the notice and stops: no
\* dependent section is rendered, the KPIs never divide by a total of 0, and
\* the filter controls are on the page.
C6_EstadoVazio ==
    /\ pc # "ZeroDivisionError"
    /\ (pc \in Dependentes \cup {"fim"}) => ~empty(df_filtrado)
    /\ (elemento.secao = "kpis") => elemento.total > 0
    /\ (pc = "parado" /\ ~ArquivoComDefeito) =>
          /\ empty(df_filtrado)
          /\ secoes[Len(secoes)] = "warning: nenhum dado encontrado"
          /\ Range(secoes) \cap Dependentes = {}
          /\ elemento.secao = "nenhum"
          /\ ControlesDeData \subseteq Range(secoes)

\* C6 witness: the pass stopped at the empty-state guard of a file that loaded
C6_Witness ==
    /\ pc = "parado" /\ ~ArquivoComDefeito
    /\ len(df_original) = 3
    /\ "sidebar.multiselect" \in Range(secoes)

\* C7: after load the source set is never changed, and no aggregator changes
\* the records or the columns of the working set it reads.
C7_SemMutacao ==
    [][ /\ (pc # "carregar") => (df_original' = df_original)
        /\ (pc \in Dependentes) => (df_filtrado' = df_filtrado) ]_vars

\* C8: the date filter keeps a record iff the day of its timestamp lies between
\* the selected start date and the selected end date, both included.
C8_DataInclusiva ==
    pc = "pesquisa" =>
        \A l \in Linhas(df_original) :
            (l \in Linhas(df_filtrado)) <=>
                (DateLeq(date(data_inicio_dt), date(l["data"]))
                 /\ DateLeq(date(l["data"]), date(data_fim_dt)))

\* C9: a file that is absent, or lacks or cannot parse a reserved column, ends
\* the pass with an error message and nothing else: no filter and no section.
C9_ErroDeCargaTerminal ==
    (ArquivoComDefeito /\ pc # "carregar") =>
        /\ pc = "parado"
        /\ Len(secoes) = 3
        /\ secoes[2] \in {"error: arquivo nao encontrado", "error: erro ao processar"}
        /\ (secoes[2] = "error: arquivo nao encontrado") <=> ~arquivo.existe
        /\ secoes[3] = "info"
        /\ elemento.secao = "nenhum"
        /\ df_filtrado = DfVazio

\* C9 witness: the pass stopped on a file that exists and is malformed
C9_Witness ==
    /\ pc = "parado"
    /\ arquivo.existe
    /\ ArquivoComDefeito
    /\ secoes[2] = "error: erro ao processar"

EhDigito(c) == c \in Range(Digitos)
MesDe(l) == l["data"].ano * 12 + l["data"].mes

\* C10: the trend has one entry per month of the working set, every key reads
\* YYYY-MM, and consecutive keys ascend as strings and as months.
C10_TendenciaOrdenada ==
    elemento.secao = "tendencia" =>
        LET d == elemento.dados
        IN  /\ Len(d) = Cardinality({MesDe(l) : l \in Linhas(df_filtrado)})
            /\ \A l \in Linhas(df_filtrado) : \E i \in 1..Len(d) : d[i].mes_ano = l["mes_ano"]
            /\ \A i \in 1..Len(d) :
                  /\ Len(d[i].mes_ano) = 7
                  /\ d[i].mes_ano[5] = "-"
                  /\ \A j \in {1, 2, 3, 4, 6, 7} : EhDigito(d[i].mes_ano[j])
            /\ \A i \in 1..(Len(d) - 1) :
                  /\ StrLess(d[i].mes_ano, d[i + 1].mes_ano)
                  /\ \A l1, l2 \in Linhas(df_filtrado) :
                        (l1["mes_ano"] = d[i].mes_ano /\ l2["mes_ano"] = d[i + 1].mes_ano)
                            => MesDe(l1) < MesDe(l2)

\* C10 witness: a trend over three months, September and October of one year
\* among them
C10_Witness ==
    /\ elemento.secao = "tendencia"
    /\ Len(elemento.dados) = 3
    /\ \E l1, l2 \in Linhas(df_filtrado) :
          l1["data"].ano = l2["data"].ano /\ l1["data"].mes = 9 /\ l2["data"].mes = 10

====
